---- MODULE Spec2Model ----
(***************************************************************************)
(* Model of steam_friend_adder.py: the SteamFriendAdder class (sliding     *)
(* window rate limiter, Steam ID validation, friend list retrieval,        *)
(* candidate selection and the two batch loops).                           *)
(*                                                                         *)
(* Strings are TLA+ strings; time is counted in whole seconds.             *)
(***************************************************************************)
EXTENDS Integers, Sequences, FiniteSets, TLC

VARIABLES
    request_times,  \* self.request_times: instants recorded by _rate_limit_check
    now,            \* the wall clock read by time.time()
    admitted,       \* history: the instants at which _rate_limit_check returned
    ticks,          \* history: number of clock advances taken between calls
    net_calls,      \* history: number of requests.get calls issued
    val_calls,      \* history: number of validate_steam_id calls made
    pc,             \* position of the running operation
    src,            \* the items of the running batch (file lines or candidates)
    idx,            \* index in src of the item being processed
    results,        \* the results dict of the running batch
    ret,            \* the dict returned by the batch operation
    fatal,          \* history: the I/O fault met on the input source
    your_friends,   \* get_mutual_friends: the operator's own friend list
    mode,           \* history: which batch operation was started
    last,           \* (is_valid, validation_msg) of the latest validation of a batch
    call,           \* the last direct call of a method and what it returned
    raised          \* the exception that left the running operation, "" if none

vars == <<request_times, now, admitted, ticks, net_calls, val_calls, pc, src,
          idx, results, ret, fatal, your_friends, mode, last, call, raised>>

(***************************************************************************)
(* Bounds of the model.                                                    *)
(***************************************************************************)
MaxCalls == 32      \* calls of _rate_limit_check in the rate limiter runs
MaxTicks == 2       \* clock advances between calls in the rate limiter runs
MaxLines == 3       \* lines of an input file
MaxFriends == 3     \* entries of a friend list returned by the API

TickSet == {1, 59}  \* how far one clock advance moves the clock

(***************************************************************************)
(* Program constants.                                                      *)
(***************************************************************************)
max_requests_per_minute == 30
WINDOW == 60
ID_LENGTH == 17
TIMEOUT == 10
PAUSE == 1

(***************************************************************************)
(* Strings: str.strip, str.isdigit, str.startswith, substring test.        *)
(* Whitespace holds the characters for which str.isspace is true and       *)
(* Digits those for which str.isdigit is true, as far as a string of this  *)
(* module can hold them (code points up to U+00FF): besides the ASCII      *)
(* ones, VT, FS, GS, RS, US, NEL and the no-break space, and the           *)
(* superscripts two, three and one.  The Unicode spaces and digits above   *)
(* U+00FF, which Python treats the same way, are not in the sets.          *)
(***************************************************************************)
VT == ""
FS == ""
GS == ""
RS == ""
US == ""
NEL == ""
NBSP == " "
SuperTwo == "²"
SuperThree == "³"
SuperOne == "¹"

Whitespace == {" ", "\t", "\n", "\r", "\f", VT, FS, GS, RS, US, NEL, NBSP}
Digits == {"0", "1", "2", "3", "4", "5", "6", "7", "8", "9",
           SuperTwo, SuperThree, SuperOne}

CharAt(s, i) == SubSeq(s, i, i)

RECURSIVE LStrip(_)
LStrip(s) ==
    IF Len(s) > 0 /\ CharAt(s, 1) \in Whitespace
    THEN LStrip(SubSeq(s, 2, Len(s)))
    ELSE s

RECURSIVE RStrip(_)
RStrip(s) ==
    IF Len(s) > 0 /\ CharAt(s, Len(s)) \in Whitespace
    THEN RStrip(SubSeq(s, 1, Len(s) - 1))
    ELSE s

Strip(s) == RStrip(LStrip(s))

IsDigit(s) == Len(s) > 0 /\ \A i \in 1..Len(s) : CharAt(s, i) \in Digits

StartsWith(s, p) == Len(s) >= Len(p) /\ SubSeq(s, 1, Len(p)) = p

Contains(s, p) ==
    \E i \in 1..(Len(s) - Len(p) + 1) : SubSeq(s, i, i + Len(p) - 1) = p

(***************************************************************************)
(* What requests.get can produce.  fail: the transport fault raised, if    *)
(* any; status: the HTTP status code; json: whether response.json()        *)
(* parses the body, and otherwise which exception class it raises          *)
(* (requests.exceptions.JSONDecodeError is a RequestException in recent    *)
(* releases of requests and a plain ValueError in older ones).             *)
(*                                                                         *)
(* The parsed body is described as far as the code looks into it.  The     *)
(* outer key is 'response' (player summaries) or 'friendslist' (friend     *)
(* list), the inner key 'players' or 'friends'.                            *)
(*   body       what the body is: "object" (a JSON object), "array" (a     *)
(*              JSON array: `key in data` is a membership test and         *)
(*              data[key] raises TypeError) or "null" (`key in data`       *)
(*              raises TypeError);                                         *)
(*   outer      whether `outer_key in data` is true;                       *)
(*   outer_kind what data[outer_key] is, with the same three kinds;        *)
(*   inner      whether `inner_key in data[outer_key]` is true;            *)
(*   inner_kind what the innermost value is: "array" (a JSON array),       *)
(*              "string" (a JSON string: it has a length, its elements     *)
(*              are characters) or "null" (len() and iteration raise       *)
(*              TypeError);                                                *)
(*   items      for an array the values of the steamid members of its      *)
(*              entries in response order, for a string its characters;    *)
(*   keyed      whether every entry of the array has a 'steamid' member;   *)
(*              when FALSE the array holds one more entry, which         *)
(*              has none.                                                  *)
(***************************************************************************)
OwnId == "76561198000000001"
IdA == "76561198000000002"
IdShort == "123"

\* A value of the parsed body, as json.loads builds it: the name of its
\* Python type and its text.  The steamid member of an entry is a JSON
\* string when the API keeps to its format; the code takes it as it comes.
Str(s) == [type |-> "str", text |-> s]
JsonNumber == [type |-> "int", text |-> "5"]
JsonNull == [type |-> "NoneType", text |-> "None"]
JsonArray == [type |-> "list", text |-> "['x']"]
JsonObject == [type |-> "dict", text |-> "{}"]

Strs(q) == [i \in DOMAIN q |-> Str(q[i])]

\* hash(v) succeeds: lists and dicts have no hash.
Hashable(v) == v.type \notin {"list", "dict"}

\* The exception that leaves a method, as class and message.  When it leaves
\* a batch operation (pc = "raised") it reaches the handler of the script,
\* which prints "Unexpected error" and the process ends: nothing follows.
Exc(class, msg) == class \o ": " \o msg

Resp(fail, status, json, outer, inner, items) ==
    [fail |-> fail, status |-> status, json |-> json, outer |-> outer,
     inner |-> inner, items |-> items, body |-> "object",
     outer_kind |-> "object", inner_kind |-> "array", keyed |-> TRUE]

NoResp == Resp("none", 0, "ok", FALSE, FALSE, <<>>)

ErrorStatuses == {401, 403, 404, 429}

\* A 200 whose body parses and is an object with both keys.
Nested(items) == Resp("none", 200, "ok", TRUE, TRUE, items)

\* Bodies that parse but are not objects holding an object holding an array
\* of entries with a steamid.
MalformedResponses ==
    {[NoResp EXCEPT !.status = 200, !.body = "null"],
     [NoResp EXCEPT !.status = 200, !.body = "array"],
     [NoResp EXCEPT !.status = 200, !.body = "array", !.outer = TRUE],
     [NoResp EXCEPT !.status = 200, !.outer = TRUE, !.outer_kind = "null"],
     [NoResp EXCEPT !.status = 200, !.outer = TRUE, !.outer_kind = "array",
                    !.inner = TRUE],
     [Nested(<<>>) EXCEPT !.inner_kind = "null"],
     [Nested(<<>>) EXCEPT !.inner_kind = "string"],
     [Nested(<<Str("x")>>) EXCEPT !.inner_kind = "string"],
     [Nested(<<>>) EXCEPT !.keyed = FALSE]}

FailureResponses ==
    {Resp("timeout", 0, "ok", FALSE, FALSE, <<>>),
     Resp("connection", 0, "ok", FALSE, FALSE, <<>>)}
    \cup {Resp("none", s, "ok", FALSE, FALSE, <<>>) : s \in ErrorStatuses}
    \cup {Resp("none", 200, j, FALSE, FALSE, <<>>) :
            j \in {"request_exception", "value_error"}}
    \cup {Resp("none", 200, "ok", FALSE, FALSE, <<>>),
          Resp("none", 200, "ok", TRUE, FALSE, <<>>)}

\* GetPlayerSummaries looked up for one id: players is empty or holds it.
PlayerResponses(id) ==
    FailureResponses \cup MalformedResponses
    \cup {Nested(<<>>), Nested(<<Str(id)>>)}

FriendIds == {OwnId, IdA, IdShort}

RECURSIVE SeqsUpTo(_, _)
SeqsUpTo(S, n) ==
    IF n = 0 THEN {<<>>}
    ELSE LET shorter == SeqsUpTo(S, n - 1)
         IN  shorter \cup {Append(q, x) : q \in shorter, x \in S}

FriendLists == SeqsUpTo({Str(id) : id \in FriendIds}, MaxFriends)

\* Friend lists with an entry whose steamid is not a JSON string.
OddIds == {JsonNumber, JsonNull, JsonArray, JsonObject}
OddLists == {<<v>> : v \in OddIds} \cup {<<Str(IdA), v>> : v \in OddIds}

FriendResponses ==
    FailureResponses \cup MalformedResponses
    \cup {Nested(l) : l \in FriendLists \cup OddLists}

ExceptionText(resp) ==
    IF resp.fail = "connection" THEN "connection failed" ELSE "invalid json"

\* What the network call costs in time: a timeout takes the full timeout.
Elapsed(resp) == IF resp.fail = "timeout" THEN TIMEOUT ELSE 0

\* The message of the TypeError that the two key tests of a parsed body
\* raise (`outer_key in data and inner_key in data[outer_key]`), "" when
\* they raise none.  The texts are those of a JSON null and of a JSON array.
KeyTestError(resp) ==
    IF resp.body = "null" THEN "argument of type 'NoneType' is not iterable"
    ELSE IF ~resp.outer THEN ""
    ELSE IF resp.body = "array"
         THEN "list indices must be integers or slices, not str"
    ELSE IF resp.outer_kind = "null"
         THEN "argument of type 'NoneType' is not iterable"
    ELSE IF ~resp.inner THEN ""
    ELSE IF resp.outer_kind = "array"
         THEN "list indices must be integers or slices, not str"
    ELSE ""

\* len() of the innermost value.
EntryCount(resp) == Len(resp.items) + (IF resp.keyed THEN 0 ELSE 1)

\* The message of the exception that [friend['steamid'] for friend in friends]
\* raises, "" when it raises none.
SteamIdsError(resp) ==
    IF resp.inner_kind = "null" THEN "'NoneType' object is not iterable"
    ELSE IF EntryCount(resp) = 0 THEN ""
    ELSE IF resp.inner_kind = "string"
         THEN "string indices must be integers, not 'str'"
    ELSE IF ~resp.keyed THEN "'steamid'"
    ELSE ""

(***************************************************************************)
(* validate_steam_id.  StripError is the message of the AttributeError     *)
(* that steam_id.strip() raises, ahead of the try, when the argument is no *)
(* str; FormatError is the format check made before any network call (""   *)
(* when the format is accepted); PlayerSummaryOutcome maps the result of   *)
(* the lookup.                                                             *)
(***************************************************************************)
Result(ok, msg) == [ok |-> ok, msg |-> msg]

StripError(v) ==
    IF v.type = "str" THEN ""
    ELSE "'" \o v.type \o "' object has no attribute 'strip'"

FormatError(steam_id) ==
    LET s == Strip(steam_id)
    IN  IF s = "" THEN "Empty Steam ID"
        ELSE IF ~IsDigit(s) THEN "Steam ID must be numeric"
        ELSE IF Len(s) # ID_LENGTH
             THEN "Steam ID must be 17 digits (got " \o ToString(Len(s)) \o ")"
        ELSE ""

PlayerSummaryOutcome(resp) ==
    IF resp.fail = "timeout" THEN Result(FALSE, "Request timeout")
    ELSE IF resp.fail # "none"
         THEN Result(FALSE, "Network error: " \o ExceptionText(resp))
    ELSE IF resp.status = 403
         THEN Result(FALSE, "Invalid API key or insufficient permissions")
    ELSE IF resp.status = 429 THEN Result(FALSE, "Rate limited by Steam API")
    ELSE IF resp.status # 200
         THEN Result(FALSE, "API error (status code: " \o ToString(resp.status) \o ")")
    ELSE IF resp.json = "request_exception"
         THEN Result(FALSE, "Network error: " \o ExceptionText(resp))
    ELSE IF resp.json = "value_error"
         THEN Result(FALSE, "Validation error: " \o ExceptionText(resp))
    ELSE IF KeyTestError(resp) # ""
         THEN Result(FALSE, "Validation error: " \o KeyTestError(resp))
    ELSE IF resp.outer /\ resp.inner
         THEN IF resp.inner_kind = "null"
              THEN Result(FALSE, "Validation error: "
                                 \o "object of type 'NoneType' has no len()")
              ELSE IF EntryCount(resp) > 0 THEN Result(TRUE, "Valid")
              ELSE Result(FALSE, "Steam ID not found")
    ELSE Result(FALSE, "Unexpected API response format")

(***************************************************************************)
(* get_friend_list: the mapping of the lookup result.                      *)
(***************************************************************************)
FetchResult(ok, list, msg) == [ok |-> ok, list |-> list, msg |-> msg]

FriendListOutcome(resp) ==
    IF resp.fail = "timeout" THEN FetchResult(FALSE, <<>>, "Request timeout")
    ELSE IF resp.fail # "none"
         THEN FetchResult(FALSE, <<>>, "Network error: " \o ExceptionText(resp))
    ELSE IF resp.status = 401 THEN FetchResult(FALSE, <<>>, "Invalid API key")
    ELSE IF resp.status = 403
         THEN FetchResult(FALSE, <<>>, "Friend list is private or user not found")
    ELSE IF resp.status = 429
         THEN FetchResult(FALSE, <<>>, "Rate limited by Steam API")
    ELSE IF resp.status # 200
         THEN FetchResult(FALSE, <<>>,
                "API error (status code: " \o ToString(resp.status) \o ")")
    ELSE IF resp.json = "request_exception"
         THEN FetchResult(FALSE, <<>>, "Network error: " \o ExceptionText(resp))
    ELSE IF resp.json = "value_error"
         THEN FetchResult(FALSE, <<>>,
                "Error retrieving friend list: " \o ExceptionText(resp))
    ELSE IF KeyTestError(resp) # ""
         THEN FetchResult(FALSE, <<>>,
                "Error retrieving friend list: " \o KeyTestError(resp))
    ELSE IF resp.outer /\ resp.inner
         THEN IF SteamIdsError(resp) # ""
              THEN FetchResult(FALSE, <<>>,
                     "Error retrieving friend list: " \o SteamIdsError(resp))
              ELSE FetchResult(TRUE, resp.items, "")
    ELSE FetchResult(FALSE, <<>>, "No friends found or unexpected response format")

(***************************************************************************)
(* get_mutual_friends: the candidates computed from the two lists.         *)
(***************************************************************************)
SeqToSet(q) == {q[i] : i \in 1..Len(q)}

\* The message of the TypeError that set(your_friends) or the membership
\* test of the comprehension raises at the first value that has no hash,
\* "" when every value has one.  No handler of get_mutual_friends or of
\* add_mutual_friends catches it.
RECURSIVE FirstUnhashable(_)
FirstUnhashable(q) ==
    IF q = <<>> THEN ""
    ELSE IF ~Hashable(Head(q)) THEN Head(q).type
    ELSE FirstUnhashable(Tail(q))

HashError(your, their) ==
    IF FirstUnhashable(your \o their) = "" THEN ""
    ELSE "unhashable type: '" \o FirstUnhashable(your \o their) \o "'"

PotentialFriends_KeepSelf(your, their, self_id) ==
    LET your_friends_set == SeqToSet(your)
    IN  SelectSeq(their, LAMBDA fid : fid \notin your_friends_set)

RECURSIVE Reverse(_)
Reverse(q) == IF q = <<>> THEN <<>> ELSE Append(Reverse(Tail(q)), Head(q))

PotentialFriends_Reversed(your, their, self_id) ==
    LET your_friends_set == SeqToSet(your)
    IN  Reverse(SelectSeq(their,
                LAMBDA fid : fid \notin your_friends_set /\ fid # Str(self_id)))

PotentialFriends(your, their, self_id) ==
    LET your_friends_set == SeqToSet(your)
    IN  SelectSeq(their, LAMBDA fid : fid \notin your_friends_set /\ fid # Str(self_id))

(***************************************************************************)
(* send_friend_request and the classification of its result by the two     *)
(* batch loops.                                                            *)
(***************************************************************************)
SendFriendRequest(v) ==
    IF ~v.ok THEN Result(FALSE, "Validation failed: " \o v.msg)
    ELSE Result(TRUE, "Steam ID validated and ready for friend request")

Bump(res, key) == [res EXCEPT ![key] = @ + 1]

Classify_CountsFailureTwice(res, r) ==
    IF r.ok THEN Bump(res, "success")
    ELSE IF Contains(r.msg, "Validation failed")
         THEN Bump(Bump(res, "invalid"), "failed")
    ELSE Bump(res, "failed")

Classify(res, r) ==
    IF r.ok THEN Bump(res, "success")
    ELSE IF Contains(r.msg, "Validation failed") THEN Bump(res, "invalid")
    ELSE Bump(res, "failed")

IsSkipped_BlankOnly(line) == Strip(line) = ""

IsSkipped(line) == Strip(line) = "" \/ StartsWith(Strip(line), "#")

(***************************************************************************)
(* _rate_limit_check: the window after the call, whether the call slept,   *)
(* for how long, and the instant at which it returns.                      *)
(***************************************************************************)
Prune_KeepsAll(times, t) == times

Prune_Inclusive(times, t) == SelectSeq(times, LAMBDA x : t - x <= WINDOW)

Prune(times, t) == SelectSeq(times, LAMBDA x : t - x < WINDOW)

RateLimitCheck_AboveCeiling(times, t) ==
    LET pruned == Prune(times, t)
        full == Len(pruned) > max_requests_per_minute
        wait_time == IF full THEN WINDOW - (t - pruned[1]) ELSE 0
        slept == full /\ wait_time > 0
    IN  [times |-> Append(IF slept THEN <<>> ELSE pruned, t),
         slept |-> slept,
         wait |-> wait_time,
         wake |-> IF slept THEN t + wait_time ELSE t]

RateLimitCheck(times, t) ==
    LET pruned == Prune(times, t)
        full == Len(pruned) >= max_requests_per_minute
        wait_time == IF full THEN WINDOW - (t - pruned[1]) ELSE 0
        slept == full /\ wait_time > 0
    IN  [times |-> Append(IF slept THEN <<>> ELSE pruned, t),
         slept |-> slept,
         wait |-> wait_time,
         wake |-> IF slept THEN t + wait_time ELSE t]

(***************************************************************************)
(* The rate limiter on its own: calls of _rate_limit_check under a clock   *)
(* that advances between the calls.                                        *)
(***************************************************************************)
NoCounters == [total |-> 0, success |-> 0, failed |-> 0, invalid |-> 0, skipped |-> 0]
NoRet == [keys |-> {}, error |-> "", counts |-> NoCounters]
NoCall == [fn |-> "none", arg |-> "", r1 |-> NoResp, r2 |-> NoResp, ok |-> FALSE,
           msg |-> "", list |-> <<>>]

\* The histories and the state of an operation at the start of a run.
InitRun ==
    /\ admitted = <<>>
    /\ ticks = 0
    /\ net_calls = 0
    /\ val_calls = 0
    /\ src = <<>>
    /\ idx = 0
    /\ results = NoCounters
    /\ ret = NoRet
    /\ fatal = "none"
    /\ your_friends = <<>>
    /\ mode = "none"
    /\ last = [ok |-> FALSE, msg |-> ""]
    /\ call = NoCall
    /\ raised = ""

\* A freshly constructed SteamFriendAdder.
InitCommon ==
    /\ request_times = <<>>
    /\ now = 0
    /\ InitRun

InitRate == InitCommon /\ pc = "rate"

Tick(d) ==
    /\ pc = "rate"
    /\ ticks < MaxTicks
    /\ now' = now + d
    /\ ticks' = ticks + 1
    /\ UNCHANGED <<request_times, admitted, net_calls, val_calls, pc, src, idx,
                   results, ret, fatal, your_friends, mode, call, last>>
    /\ UNCHANGED raised

RateLimitCall ==
    /\ pc = "rate"
    /\ Len(admitted) < MaxCalls
    /\ LET r == RateLimitCheck(request_times, now)
       IN  /\ request_times' = r.times
           /\ now' = r.wake
           /\ admitted' = Append(admitted, r.wake)
    /\ UNCHANGED <<ticks, net_calls, val_calls, pc, src, idx, results, ret,
                   fatal, your_friends, mode, call, last>>
    /\ UNCHANGED raised

NextRate == (\E d \in TickSet : Tick(d)) \/ RateLimitCall

SpecRate == InitRate /\ [][NextRate]_vars

(***************************************************************************)
(* C1: no 61-second interval of real time contains more than               *)
(* max_requests_per_minute (30) admissions, i.e. instants at which         *)
(* _rate_limit_check returned.                                             *)
(***************************************************************************)
AdmittedWithin(from, len) ==
    Cardinality({i \in 1..Len(admitted) :
                    admitted[i] >= from /\ admitted[i] < from + len})

C1_AtMost30Per61s ==
    \A i \in 1..Len(admitted) :
        AdmittedWithin(admitted[i], 61) <= max_requests_per_minute

\* A stricter reading of the same bound, for exploring how far the code is
\* from it: no 2-second interval contains more than 30 admissions.
Burst2s ==
    \A i \in 1..Len(admitted) :
        AdmittedWithin(admitted[i], 2) <= max_requests_per_minute

(***************************************************************************)
(* How every lookup of a batch operation starts, at clock t:               *)
(* _rate_limit_check prunes the window and then either starts its sleep    *)
(* (the operation is then at wait_pc) or records the instant and returns,  *)
(* and requests.get is issued (the operation is then at lookup_pc).        *)
(***************************************************************************)
BeginLookup_NoAdmission(t, wait_pc, lookup_pc) ==
    /\ now' = t
    /\ net_calls' = net_calls + 1
    /\ pc' = lookup_pc
    /\ UNCHANGED <<request_times, admitted>>

BeginLookup(t, wait_pc, lookup_pc) ==
    LET r == RateLimitCheck(request_times, t)
    IN  /\ now' = t
        /\ IF r.slept
           THEN /\ request_times' = Prune(request_times, t)
                /\ pc' = wait_pc
                /\ UNCHANGED <<admitted, net_calls>>
           ELSE /\ request_times' = r.times
                /\ admitted' = Append(admitted, t)
                /\ net_calls' = net_calls + 1
                /\ pc' = lookup_pc

(***************************************************************************)
(* Methods called directly, one call per run, against a transport that     *)
(* answers with a chosen response.                                         *)
(***************************************************************************)
ValidateInputs ==
    {"", " \n", OwnId, " " \o IdA \o "\n", IdShort, "7656119800000000",
     "765611980000000001", "7656119800000000x", "76561198 00000001",
     "notanumber", "# comment", VT \o IdA \o NBSP,
     "7656119800000000" \o SuperTwo}

InitCalls == InitCommon /\ pc = "call"

CallValidate(steam_id, resp) ==
    /\ pc = "call"
    /\ call.fn = "none"
    /\ val_calls' = val_calls + 1
    /\ IF FormatError(steam_id) # ""
       THEN /\ call' = [NoCall EXCEPT !.fn = "validate_steam_id", !.arg = steam_id,
                                      !.r1 = resp, !.msg = FormatError(steam_id)]
            /\ UNCHANGED <<request_times, now, admitted, net_calls>>
       ELSE LET r == RateLimitCheck(request_times, now)
                v == PlayerSummaryOutcome(resp)
            IN  /\ request_times' = r.times
                /\ admitted' = Append(admitted, r.wake)
                /\ net_calls' = net_calls + 1
                /\ now' = r.wake + Elapsed(resp)
                /\ call' = [NoCall EXCEPT !.fn = "validate_steam_id",
                                          !.arg = steam_id, !.r1 = resp,
                                          !.ok = v.ok, !.msg = v.msg]
    /\ UNCHANGED <<ticks, pc, src, idx, results, ret, fatal, your_friends, mode,
                   last>>
    /\ UNCHANGED raised

CallGetFriendList(steam_id, resp) ==
    /\ pc = "call"
    /\ call.fn = "none"
    /\ LET r == RateLimitCheck(request_times, now)
           f == FriendListOutcome(resp)
       IN  /\ request_times' = r.times
           /\ admitted' = Append(admitted, r.wake)
           /\ net_calls' = net_calls + 1
           /\ now' = r.wake + Elapsed(resp)
           /\ call' = [NoCall EXCEPT !.fn = "get_friend_list", !.arg = steam_id,
                                     !.r1 = resp, !.ok = f.ok, !.msg = f.msg,
                                     !.list = f.list]
    /\ UNCHANGED <<ticks, val_calls, pc, src, idx, results, ret, fatal,
                   your_friends, mode, last>>
    /\ UNCHANGED raised

CallGetMutualFriends_FetchesBoth(target, resp1, resp2) ==
    /\ pc = "call"
    /\ call.fn = "none"
    /\ LET a1 == RateLimitCheck(request_times, now)
           f1 == FriendListOutcome(resp1)
           t1 == a1.wake + Elapsed(resp1)
           a2 == RateLimitCheck(a1.times, t1)
           f2 == FriendListOutcome(resp2)
           e == IF f1.ok /\ f2.ok THEN HashError(f1.list, f2.list) ELSE ""
       IN  /\ IF ~f1.ok
              THEN /\ request_times' = a2.times
                   /\ admitted' = admitted \o <<a1.wake, a2.wake>>
                   /\ net_calls' = net_calls + 2
                   /\ now' = a2.wake + Elapsed(resp2)
                   /\ call' = [NoCall EXCEPT
                                 !.fn = "get_mutual_friends", !.arg = target,
                                 !.r1 = resp1, !.r2 = resp2,
                                 !.msg = "Failed to get your friend list: " \o f1.msg]
              ELSE /\ request_times' = a2.times
                   /\ admitted' = admitted \o <<a1.wake, a2.wake>>
                   /\ net_calls' = net_calls + 2
                   /\ now' = a2.wake + Elapsed(resp2)
                   /\ call' = IF ~f2.ok
                              THEN [NoCall EXCEPT
                                      !.fn = "get_mutual_friends", !.arg = target,
                                      !.r1 = resp1, !.r2 = resp2,
                                      !.msg = "Failed to get target user's friend list: "
                                              \o f2.msg]
                              ELSE IF e # ""
                              THEN [NoCall EXCEPT
                                      !.fn = "get_mutual_friends", !.arg = target,
                                      !.r1 = resp1, !.r2 = resp2]
                              ELSE [NoCall EXCEPT
                                      !.fn = "get_mutual_friends", !.arg = target,
                                      !.r1 = resp1, !.r2 = resp2, !.ok = TRUE,
                                      !.list = PotentialFriends(f1.list, f2.list, OwnId)]
           /\ raised' = IF e = "" THEN "" ELSE Exc("TypeError", e)
    /\ UNCHANGED <<ticks, val_calls, pc, src, idx, results, ret, fatal,
                   your_friends, mode, last>>

CallGetMutualFriends(target, resp1, resp2) ==
    /\ pc = "call"
    /\ call.fn = "none"
    /\ LET a1 == RateLimitCheck(request_times, now)
           f1 == FriendListOutcome(resp1)
           t1 == a1.wake + Elapsed(resp1)
           a2 == RateLimitCheck(a1.times, t1)
           f2 == FriendListOutcome(resp2)
           e == IF f1.ok /\ f2.ok THEN HashError(f1.list, f2.list) ELSE ""
       IN  /\ IF ~f1.ok
              THEN /\ request_times' = a1.times
                   /\ admitted' = Append(admitted, a1.wake)
                   /\ net_calls' = net_calls + 1
                   /\ now' = t1
                   /\ call' = [NoCall EXCEPT
                                 !.fn = "get_mutual_friends", !.arg = target,
                                 !.r1 = resp1, !.r2 = resp2,
                                 !.msg = "Failed to get your friend list: " \o f1.msg]
              ELSE /\ request_times' = a2.times
                   /\ admitted' = admitted \o <<a1.wake, a2.wake>>
                   /\ net_calls' = net_calls + 2
                   /\ now' = a2.wake + Elapsed(resp2)
                   /\ call' = IF ~f2.ok
                              THEN [NoCall EXCEPT
                                      !.fn = "get_mutual_friends", !.arg = target,
                                      !.r1 = resp1, !.r2 = resp2,
                                      !.msg = "Failed to get target user's friend list: "
                                              \o f2.msg]
                              ELSE IF e # ""
                              THEN [NoCall EXCEPT
                                      !.fn = "get_mutual_friends", !.arg = target,
                                      !.r1 = resp1, !.r2 = resp2]
                              ELSE [NoCall EXCEPT
                                      !.fn = "get_mutual_friends", !.arg = target,
                                      !.r1 = resp1, !.r2 = resp2, !.ok = TRUE,
                                      !.list = PotentialFriends(f1.list, f2.list, OwnId)]
           /\ raised' = IF e = "" THEN "" ELSE Exc("TypeError", e)
    /\ UNCHANGED <<ticks, val_calls, pc, src, idx, results, ret, fatal,
                   your_friends, mode, last>>

NextCalls ==
    \/ \E s \in ValidateInputs : \E resp \in PlayerResponses(Strip(s)) :
          CallValidate(s, resp)
    \/ \E resp \in FriendResponses : CallGetFriendList(IdA, resp)
    \/ \E resp1 \in FriendResponses : \E resp2 \in FriendResponses :
          CallGetMutualFriends(IdA, resp1, resp2)

SpecCalls == InitCalls /\ [][NextCalls]_vars

(***************************************************************************)
(* The batch operations, one run per behaviour.  An input file is missing, *)
(* or fails when opened or read, or yields its lines.                      *)
(***************************************************************************)
FileLines ==
    {"\n", "# comment\n", " " \o FS \o "#x\n", IdA \o "\n", "notanumber\n"}

File(exists, fault, lines) == [exists |-> exists, fault |-> fault, lines |-> lines]

Files ==
    {File(FALSE, "none", <<>>), File(TRUE, "open", <<>>), File(TRUE, "read", <<>>)}
    \cup {File(TRUE, "none", l) : l \in SeqsUpTo(FileLines, MaxLines)}

Targets == {IdA, "notanumber"}

CounterKeys == {"total", "success", "failed", "invalid", "skipped"}

ErrorOnly(msg) == [keys |-> {"error"}, error |-> msg, counts |-> NoCounters]
Summary(res) == [keys |-> CounterKeys, error |-> "", counts |-> res]
SummaryWithError(res, msg) ==
    [keys |-> CounterKeys \cup {"error"}, error |-> msg, counts |-> res]

\* The adder may have served earlier operations: its window then holds the
\* instants of the lookups they made, here one per second up to the start
\* of the run, as a batch of found ids leaves them.
EarlierLookups ==
    {0} \cup ((max_requests_per_minute - 3)..max_requests_per_minute)

Init ==
    /\ pc = "idle"
    /\ InitRun
    /\ \E n \in EarlierLookups :
          /\ request_times = [i \in 1..n |-> i - 1]
          /\ now = n

\* process_steam_ids_file up to the first iteration of its loop.
ProcessFileStart(f) ==
    /\ pc = "idle"
    /\ mode' = "file"
    /\ IF ~f.exists
       THEN /\ ret' = ErrorOnly("File not found")
            /\ fatal' = "missing"
            /\ pc' = "done"
            /\ UNCHANGED <<src, idx, results>>
       ELSE IF f.fault # "none"
       THEN /\ results' = NoCounters
            /\ ret' = SummaryWithError(NoCounters, "cannot " \o f.fault \o " file")
            /\ fatal' = f.fault
            /\ pc' = "done"
            /\ UNCHANGED <<src, idx>>
       ELSE /\ results' = NoCounters
            /\ src' = f.lines
            /\ idx' = 1
            /\ pc' = "f_loop"
            /\ UNCHANGED <<ret, fatal>>
    /\ UNCHANGED <<request_times, now, admitted, ticks, net_calls, val_calls,
                   your_friends, call, last>>
    /\ UNCHANGED raised

\* The head of the file loop: the end of the loop and the return, or a
\* skipped line, or the line is counted in total.
FileItem ==
    /\ pc = "f_loop"
    /\ IF idx > Len(src)
       THEN /\ ret' = Summary(results)
            /\ pc' = "done"
            /\ UNCHANGED <<idx, results>>
       ELSE IF IsSkipped(src[idx])
       THEN /\ results' = Bump(results, "skipped")
            /\ idx' = idx + 1
            /\ UNCHANGED <<pc, ret>>
       ELSE /\ results' = Bump(results, "total")
            /\ pc' = "f_counted"
            /\ UNCHANGED <<idx, ret>>
    /\ UNCHANGED <<request_times, now, admitted, ticks, net_calls, val_calls, src,
                   fatal, your_friends, mode, call, last>>
    /\ UNCHANGED raised

\* send_friend_request calls validate_steam_id, which rejects the format or
\* starts its lookup.
FileValidate ==
    /\ pc = "f_counted"
    /\ val_calls' = val_calls + 1
    /\ IF FormatError(Strip(src[idx])) # ""
       THEN /\ last' = Result(FALSE, FormatError(Strip(src[idx])))
            /\ pc' = "f_returned"
            /\ UNCHANGED <<request_times, now, admitted, net_calls>>
       ELSE /\ BeginLookup(now, "f_wait", "f_lookup")
            /\ UNCHANGED last
    /\ UNCHANGED <<ticks, src, idx, results, ret, fatal, your_friends, mode, call>>
    /\ UNCHANGED raised

\* The time.sleep of _rate_limit_check ends: the window is cleared, the
\* instant read before the sleep is recorded and requests.get is issued.
WaitPcs == {"f_wait", "m_wait", "m_target_wait", "m_own_wait", "m_their_wait"}

LookupAfter(wait_pc) ==
    CASE wait_pc = "f_wait" -> "f_lookup"
      [] wait_pc = "m_wait" -> "m_lookup"
      [] wait_pc = "m_target_wait" -> "m_target"
      [] wait_pc = "m_own_wait" -> "m_own"
      [] wait_pc = "m_their_wait" -> "m_their"

Wake ==
    /\ pc \in WaitPcs
    /\ LET r == RateLimitCheck(request_times, now)
       IN  /\ request_times' = r.times
           /\ now' = r.wake
           /\ admitted' = Append(admitted, r.wake)
    /\ net_calls' = net_calls + 1
    /\ pc' = LookupAfter(pc)
    /\ UNCHANGED <<ticks, val_calls, src, idx, results, ret, fatal, your_friends,
                   mode, call, last>>
    /\ UNCHANGED raised

\* The lookup of validate_steam_id returns.
FileLookupReturn_RetriesTimeout ==
    /\ pc = "f_lookup"
    /\ \E resp \in PlayerResponses(Strip(src[idx])) :
          /\ now' = now + Elapsed(resp)
          /\ IF resp.fail = "timeout"
             THEN /\ pc' = "f_counted"
                  /\ UNCHANGED last
             ELSE /\ last' = PlayerSummaryOutcome(resp)
                  /\ pc' = "f_returned"
    /\ UNCHANGED <<request_times, admitted, ticks, net_calls, val_calls, src, idx,
                   results, ret, fatal, your_friends, mode, call>>
    /\ UNCHANGED raised

FileLookupReturn ==
    /\ pc = "f_lookup"
    /\ \E resp \in PlayerResponses(Strip(src[idx])) :
          /\ now' = now + Elapsed(resp)
          /\ last' = PlayerSummaryOutcome(resp)
    /\ pc' = "f_returned"
    /\ UNCHANGED <<request_times, admitted, ticks, net_calls, val_calls, src, idx,
                   results, ret, fatal, your_friends, mode, call>>
    /\ UNCHANGED raised

\* send_friend_request has returned: the item is counted by its message.
FileClassify ==
    /\ pc = "f_returned"
    /\ results' = Classify(results, SendFriendRequest(last))
    /\ pc' = "f_pause"
    /\ UNCHANGED <<request_times, now, admitted, ticks, net_calls, val_calls, src,
                   idx, ret, fatal, your_friends, mode, call, last>>
    /\ UNCHANGED raised

\* time.sleep(1) at the end of the loop body.
FilePause_NoSleep ==
    /\ pc = "f_pause"
    /\ idx' = idx + 1
    /\ pc' = "f_loop"
    /\ UNCHANGED <<request_times, now, admitted, ticks, net_calls, val_calls, src,
                   results, ret, fatal, your_friends, mode, call, last>>
    /\ UNCHANGED raised

FilePause ==
    /\ pc = "f_pause"
    /\ now' = now + PAUSE
    /\ idx' = idx + 1
    /\ pc' = "f_loop"
    /\ UNCHANGED <<request_times, admitted, ticks, net_calls, val_calls, src,
                   results, ret, fatal, your_friends, mode, call, last>>
    /\ UNCHANGED raised

\* add_mutual_friends up to the validation of the target id.
AddMutualStart(target) ==
    /\ pc = "idle"
    /\ mode' = "mutual"
    /\ val_calls' = val_calls + 1
    /\ IF FormatError(target) # ""
       THEN /\ last' = Result(FALSE, FormatError(target))
            /\ ret' = ErrorOnly("Invalid target Steam ID: " \o FormatError(target))
            /\ pc' = "done"
            /\ UNCHANGED <<request_times, now, admitted, net_calls>>
       ELSE /\ BeginLookup(now, "m_target_wait", "m_target")
            /\ UNCHANGED <<ret, last>>
    /\ UNCHANGED <<ticks, src, idx, results, fatal, your_friends, call>>
    /\ UNCHANGED raised

\* The lookup of the target returns; get_mutual_friends starts with the
\* lookup of the operator's own friend list.
TargetReturn_IgnoresOutcome(resp) ==
    /\ pc = "m_target"
    /\ last' = PlayerSummaryOutcome(resp)
    /\ BeginLookup(now + Elapsed(resp), "m_own_wait", "m_own")
    /\ UNCHANGED <<ticks, val_calls, src, idx, results, ret, fatal, your_friends,
                   mode, call>>
    /\ UNCHANGED raised

TargetReturn(resp) ==
    /\ pc = "m_target"
    /\ last' = PlayerSummaryOutcome(resp)
    /\ IF ~PlayerSummaryOutcome(resp).ok
       THEN /\ ret' = ErrorOnly("Invalid target Steam ID: "
                                \o PlayerSummaryOutcome(resp).msg)
            /\ now' = now + Elapsed(resp)
            /\ pc' = "done"
            /\ UNCHANGED <<request_times, admitted, net_calls>>
       ELSE /\ BeginLookup(now + Elapsed(resp), "m_own_wait", "m_own")
            /\ UNCHANGED ret
    /\ UNCHANGED <<ticks, val_calls, src, idx, results, fatal, your_friends,
                   mode, call>>
    /\ UNCHANGED raised

\* The operator's list arrives; the lookup of the target's list starts.
OwnListReturn(resp) ==
    /\ pc = "m_own"
    /\ IF ~FriendListOutcome(resp).ok
       THEN /\ ret' = ErrorOnly("Failed to get your friend list: "
                                \o FriendListOutcome(resp).msg)
            /\ now' = now + Elapsed(resp)
            /\ pc' = "done"
            /\ UNCHANGED <<request_times, admitted, net_calls, your_friends>>
       ELSE /\ your_friends' = FriendListOutcome(resp).list
            /\ BeginLookup(now + Elapsed(resp), "m_their_wait", "m_their")
            /\ UNCHANGED ret
    /\ UNCHANGED <<ticks, val_calls, src, idx, results, fatal, mode, call, last>>
    /\ UNCHANGED raised

\* The target's list arrives; the candidates are computed, unless a value
\* of one of the lists has no hash: the TypeError then leaves
\* get_mutual_friends and add_mutual_friends, which returns nothing.
TheirListReturn(resp) ==
    /\ pc = "m_their"
    /\ now' = now + Elapsed(resp)
    /\ your_friends' = <<>>
    /\ LET f == FriendListOutcome(resp)
           friend_ids == PotentialFriends(your_friends, f.list, OwnId)
       IN  IF ~f.ok
           THEN /\ ret' = ErrorOnly("Failed to get target user's friend list: "
                                    \o f.msg)
                /\ pc' = "done"
                /\ UNCHANGED <<src, idx, results, raised>>
           ELSE IF HashError(your_friends, f.list) # ""
           THEN /\ raised' = Exc("TypeError", HashError(your_friends, f.list))
                /\ pc' = "raised"
                /\ UNCHANGED <<src, idx, results, ret>>
           ELSE IF Len(friend_ids) = 0
           THEN /\ ret' = Summary(NoCounters)
                /\ pc' = "done"
                /\ UNCHANGED <<src, idx, results, raised>>
           ELSE /\ results' = NoCounters
                /\ src' = friend_ids
                /\ idx' = 1
                /\ pc' = "m_loop"
                /\ UNCHANGED <<ret, raised>>
    /\ UNCHANGED <<request_times, admitted, ticks, net_calls, val_calls, fatal,
                   mode, call, last>>

\* The head of the candidate loop: the end of the loop and the return, or
\* the candidate is counted in total.
MutualItem ==
    /\ pc = "m_loop"
    /\ IF idx > Len(src)
       THEN /\ ret' = Summary(results)
            /\ pc' = "done"
            /\ UNCHANGED results
       ELSE /\ results' = Bump(results, "total")
            /\ pc' = "m_counted"
            /\ UNCHANGED ret
    /\ UNCHANGED <<request_times, now, admitted, ticks, net_calls, val_calls, src,
                   idx, fatal, your_friends, mode, call, last>>
    /\ UNCHANGED raised

\* send_friend_request calls validate_steam_id, whose steam_id.strip()
\* raises when the candidate is no str: the AttributeError leaves
\* add_mutual_friends with the candidate counted in total only.
MutualValidate ==
    /\ pc = "m_counted"
    /\ val_calls' = val_calls + 1
    /\ IF StripError(src[idx]) # ""
       THEN /\ raised' = Exc("AttributeError", StripError(src[idx]))
            /\ pc' = "raised"
            /\ UNCHANGED <<request_times, now, admitted, net_calls, last>>
       ELSE IF FormatError(src[idx].text) # ""
       THEN /\ last' = Result(FALSE, FormatError(src[idx].text))
            /\ pc' = "m_returned"
            /\ UNCHANGED <<request_times, now, admitted, net_calls, raised>>
       ELSE /\ BeginLookup(now, "m_wait", "m_lookup")
            /\ UNCHANGED <<last, raised>>
    /\ UNCHANGED <<ticks, src, idx, results, ret, fatal, your_friends, mode, call>>

MutualLookupReturn ==
    /\ pc = "m_lookup"
    /\ \E resp \in PlayerResponses(src[idx].text) :
          /\ now' = now + Elapsed(resp)
          /\ last' = PlayerSummaryOutcome(resp)
    /\ pc' = "m_returned"
    /\ UNCHANGED <<request_times, admitted, ticks, net_calls, val_calls, src, idx,
                   results, ret, fatal, your_friends, mode, call>>
    /\ UNCHANGED raised

MutualClassify ==
    /\ pc = "m_returned"
    /\ results' = Classify(results, SendFriendRequest(last))
    /\ pc' = "m_pause"
    /\ UNCHANGED <<request_times, now, admitted, ticks, net_calls, val_calls, src,
                   idx, ret, fatal, your_friends, mode, call, last>>
    /\ UNCHANGED raised

MutualPause ==
    /\ pc = "m_pause"
    /\ now' = now + PAUSE
    /\ idx' = idx + 1
    /\ pc' = "m_loop"
    /\ UNCHANGED <<request_times, admitted, ticks, net_calls, val_calls, src,
                   results, ret, fatal, your_friends, mode, call, last>>
    /\ UNCHANGED raised

Next ==
    \/ \E f \in Files : ProcessFileStart(f)
    \/ FileItem
    \/ FileValidate
    \/ FileLookupReturn
    \/ FileClassify
    \/ FilePause
    \/ \E target \in Targets : AddMutualStart(target)
    \/ \E resp \in PlayerResponses(IdA) : TargetReturn(resp)
    \/ \E resp \in FriendResponses : OwnListReturn(resp)
    \/ \E resp \in FriendResponses : TheirListReturn(resp)
    \/ MutualItem
    \/ MutualValidate
    \/ MutualLookupReturn
    \/ MutualClassify
    \/ MutualPause
    \/ Wake

Spec == Init /\ [][Next]_vars

\* Every step that can be taken is eventually taken: the single thread of
\* control keeps running and every network call returns or times out.
FairSpec == Spec /\ WF_vars(Next)

(***************************************************************************)
(* The batch runs under an operator who may press Ctrl-C: the signal       *)
(* raises KeyboardInterrupt in the one thread wherever it is, in a pending *)
(* requests.get and in time.sleep included; no handler of the class        *)
(* catches it (they catch Exception), so it unwinds to the handler of the  *)
(* script, which prints a notice and exits without a result.               *)
(*                                                                         *)
(* The signal can come at a position of the run (InterruptAtPosition; when *)
(* the thread is in a blocking call there, the clock has moved by some     *)
(* part of the time that call can take) or inside the step that leaves a   *)
(* position, after a part of that step only: before the first admission of *)
(* an operation (InterruptStarting), inside validate_steam_id before its   *)
(* lookup is issued (InterruptValidating), after the sleep of              *)
(* _rate_limit_check (InterruptWaking), and after a lookup of              *)
(* add_mutual_friends has returned and before the next one is issued       *)
(* (InterruptAfterTarget, InterruptAfterOwnList, InterruptAfterTheirList). *)
(***************************************************************************)
LookupPcs == {"f_lookup", "m_lookup", "m_target", "m_own", "m_their"}
RunningPcs ==
    {"f_loop", "f_counted", "f_returned", "f_pause",
     "m_loop", "m_counted", "m_returned", "m_pause"} \cup LookupPcs \cup WaitPcs

Blocked ==
    IF pc \in WaitPcs THEN RateLimitCheck(request_times, now).wait
    ELSE IF pc \in LookupPcs THEN TIMEOUT
    ELSE IF pc \in {"f_pause", "m_pause"} THEN PAUSE
    ELSE 0

InterruptAtPosition ==
    /\ pc \in RunningPcs
    /\ pc' = "cancelled"
    /\ \E d \in 0..Blocked : now' = now + d
    /\ UNCHANGED <<request_times, admitted, ticks, net_calls, val_calls, src,
                   idx, results, ret, fatal, your_friends, mode, last, call, raised>>

\* The part of a call of _rate_limit_check, entered at instant t, that is
\* done when the signal comes before requests.get is issued: nothing yet,
\* the pruning of the window, or, in a call that does not sleep, the
\* recording of the instant as well (the call has admitted the lookup and
\* the lookup is never made).
CutInAdmission(t) ==
    /\ now' = t
    /\ UNCHANGED net_calls
    /\ \/ UNCHANGED <<request_times, admitted>>
       \/ /\ request_times' = Prune(request_times, t)
          /\ UNCHANGED admitted
       \/ /\ ~RateLimitCheck(request_times, t).slept
          /\ request_times' = RateLimitCheck(request_times, t).times
          /\ admitted' = Append(admitted, t)

\* The operation has been called and has not reached its loop or its first
\* admission: the file is being looked for, opened or read, or its fault
\* has been met and is not yet reported; or add_mutual_friends is about to
\* validate its target or is inside that validation.
InterruptStarting ==
    /\ pc = "idle"
    /\ pc' = "cancelled"
    /\ \/ /\ mode' \in {"file", "mutual"}
          /\ UNCHANGED <<request_times, now, admitted, net_calls, val_calls, last,
                         fatal>>
       \/ /\ mode' = "file"
          /\ fatal' \in {"missing", "open", "read"}
          /\ UNCHANGED <<request_times, now, admitted, net_calls, val_calls, last>>
       \/ \E target \in Targets :
            /\ mode' = "mutual"
            /\ val_calls' = val_calls + 1
            /\ IF FormatError(target) # ""
               THEN /\ last' \in {last, Result(FALSE, FormatError(target))}
                    /\ UNCHANGED <<request_times, now, admitted, net_calls>>
               ELSE /\ CutInAdmission(now)
                    /\ UNCHANGED last
            /\ UNCHANGED fatal
    /\ UNCHANGED <<ticks, src, idx, results, ret, your_friends, call, raised>>

\* The item is counted and validate_steam_id has been entered: the signal
\* comes before it returns its format error or before its lookup is issued.
InterruptValidating ==
    /\ pc \in {"f_counted", "m_counted"}
    /\ pc' = "cancelled"
    /\ val_calls' = val_calls + 1
    /\ LET rejected ==
             IF pc = "f_counted" THEN FormatError(Strip(src[idx])) # ""
             ELSE StripError(src[idx]) # "" \/ FormatError(src[idx].text) # ""
       IN  IF rejected
           THEN UNCHANGED <<request_times, now, admitted, net_calls>>
           ELSE CutInAdmission(now)
    /\ UNCHANGED <<ticks, src, idx, results, ret, fatal, your_friends, mode, last,
                   call, raised>>

\* The sleep of _rate_limit_check is over: the signal comes after the window
\* was cleared, or after the instant was recorded as well, and before
\* requests.get is issued.
InterruptWaking ==
    /\ pc \in WaitPcs
    /\ pc' = "cancelled"
    /\ LET r == RateLimitCheck(request_times, now)
       IN  /\ now' = r.wake
           /\ \/ /\ request_times' = <<>>
                 /\ UNCHANGED admitted
              \/ /\ request_times' = r.times
                 /\ admitted' = Append(admitted, r.wake)
    /\ UNCHANGED <<ticks, net_calls, val_calls, src, idx, results, ret, fatal,
                   your_friends, mode, last, call, raised>>

\* The lookup of the target has returned: the signal comes before the error
\* is returned, or before the lookup of the operator's list is issued.
InterruptAfterTarget(resp) ==
    /\ pc = "m_target"
    /\ pc' = "cancelled"
    /\ last' = PlayerSummaryOutcome(resp)
    /\ IF ~PlayerSummaryOutcome(resp).ok
       THEN /\ now' = now + Elapsed(resp)
            /\ UNCHANGED <<request_times, admitted, net_calls>>
       ELSE CutInAdmission(now + Elapsed(resp))
    /\ UNCHANGED <<ticks, val_calls, src, idx, results, ret, fatal, your_friends,
                   mode, call, raised>>

\* The operator's list has arrived: the signal comes before the lookup of
\* the target's list is issued.
InterruptAfterOwnList(resp) ==
    /\ pc = "m_own"
    /\ pc' = "cancelled"
    /\ FriendListOutcome(resp).ok
    /\ your_friends' = FriendListOutcome(resp).list
    /\ CutInAdmission(now + Elapsed(resp))
    /\ UNCHANGED <<ticks, val_calls, src, idx, results, ret, fatal, mode, last,
                   call, raised>>

\* get_mutual_friends has returned the candidates: the signal comes before
\* add_mutual_friends returns the empty summary or enters its loop.
InterruptAfterTheirList(resp) ==
    /\ pc = "m_their"
    /\ pc' = "cancelled"
    /\ FriendListOutcome(resp).ok
    /\ HashError(your_friends, FriendListOutcome(resp).list) = ""
    /\ now' = now + Elapsed(resp)
    /\ your_friends' = <<>>
    /\ src' = PotentialFriends(your_friends, FriendListOutcome(resp).list, OwnId)
    /\ UNCHANGED <<request_times, admitted, ticks, net_calls, val_calls, idx,
                   results, ret, fatal, mode, last, call, raised>>

Interrupt ==
    \/ InterruptAtPosition
    \/ InterruptStarting
    \/ InterruptValidating
    \/ InterruptWaking
    \/ \E resp \in PlayerResponses(IdA) : InterruptAfterTarget(resp)
    \/ \E resp \in FriendResponses : InterruptAfterOwnList(resp)
    \/ \E resp \in FriendResponses : InterruptAfterTheirList(resp)

NextInterrupt == Next \/ Interrupt

SpecInterrupt == Init /\ [][NextInterrupt]_vars

(***************************************************************************)
(* The outcome names of the specification, read off the messages that      *)
(* validate_steam_id and get_friend_list return.                           *)
(***************************************************************************)
IsFormatReason(msg) ==
    \/ msg = "Empty Steam ID"
    \/ msg = "Steam ID must be numeric"
    \/ StartsWith(msg, "Steam ID must be 17 digits (got ")

ValidationOutcome(ok, msg) ==
    IF ok THEN "Valid"
    ELSE IF IsFormatReason(msg) THEN "InvalidFormat"
    ELSE IF msg = "Steam ID not found" THEN "NotFound"
    ELSE IF msg = "Invalid API key or insufficient permissions" THEN "AuthError"
    ELSE IF msg = "Rate limited by Steam API" THEN "RateLimited"
    ELSE IF msg = "Request timeout" THEN "NetworkError(timeout)"
    ELSE IF StartsWith(msg, "Network error: ") THEN "NetworkError"
    ELSE IF StartsWith(msg, "API error (status code: ") THEN "UnexpectedResponse"
    ELSE IF msg = "Unexpected API response format" THEN "UnexpectedResponse"
    ELSE "Other"

FetchOutcome(ok, msg) ==
    IF ok THEN "Success"
    ELSE IF msg = "Invalid API key" THEN "AuthError"
    ELSE IF msg = "Friend list is private or user not found" THEN "PrivateOrNotFound"
    ELSE IF msg = "Rate limited by Steam API" THEN "RateLimited"
    ELSE IF msg = "Request timeout" THEN "NetworkError"
    ELSE IF StartsWith(msg, "Network error: ") THEN "NetworkError"
    ELSE IF StartsWith(msg, "API error (status code: ") THEN "UnexpectedResponse"
    ELSE IF msg = "No friends found or unexpected response format"
         THEN "UnexpectedResponse"
    ELSE "Other"

\* The digits of an identifier are the decimal digits 0 to 9.
DecimalDigits == {"0", "1", "2", "3", "4", "5", "6", "7", "8", "9"}

HasNonDigit(s) == \E i \in 1..Len(s) : CharAt(s, i) \notin DecimalDigits

\* A character that str.isdigit does not accept.
HasNonIsDigit(s) == \E i \in 1..Len(s) : CharAt(s, i) \notin Digits

Validated == call.fn = "validate_steam_id"

(***************************************************************************)
(* C2 as stated: a validate_steam_id call on a string whose length is not  *)
(* 17 or that holds a non-digit character returns an InvalidFormat outcome *)
(* and issues no network lookup.                                           *)
(***************************************************************************)
C2_RawStringRejected ==
    (Validated /\ (Len(call.arg) # ID_LENGTH \/ HasNonDigit(call.arg)))
        => /\ ~call.ok
           /\ IsFormatReason(call.msg)
           /\ net_calls = 0

\* What the code does keep: a string that, once str.strip has trimmed it,
\* has a length other than 17 or holds a character that str.isdigit does not
\* accept is rejected before any admission or lookup.
C2_TrimmedStringRejected ==
    (Validated /\ (Len(Strip(call.arg)) # ID_LENGTH \/ HasNonIsDigit(Strip(call.arg))))
        => /\ ~call.ok
           /\ IsFormatReason(call.msg)
           /\ ValidationOutcome(call.ok, call.msg) = "InvalidFormat"
           /\ net_calls = 0
           /\ admitted = <<>>

\* What it does not: a character that is no decimal digit gets through the
\* format check and into the lookup.
NonDigitLookedUp ==
    /\ Validated
    /\ call.arg = "7656119800000000" \o SuperTwo
    /\ call.ok
    /\ net_calls = 1

NoNonDigitLookedUp == ~NonDigitLookedUp

C2_Witness ==
    /\ Validated
    /\ call.arg = IdShort
    /\ call.msg = "Steam ID must be 17 digits (got 3)"
    /\ net_calls = 0

(***************************************************************************)
(* C4: the candidates returned by get_mutual_friends hold neither the      *)
(* operator's own id nor any id of the operator's list, and every          *)
(* candidate is an element of the target's list.                           *)
(***************************************************************************)
Selected == call.fn = "get_mutual_friends" /\ call.ok

C4_CandidatesAreNew ==
    Selected =>
        /\ Str(OwnId) \notin SeqToSet(call.list)
        /\ SeqToSet(call.list) \cap SeqToSet(call.r1.items) = {}
        /\ SeqToSet(call.list) \subseteq SeqToSet(call.r2.items)

C4_Witness ==
    /\ Selected
    /\ call.r1.items = Strs(<<IdA>>)
    /\ call.r2.items = Strs(<<OwnId, IdA, IdShort>>)
    /\ call.list = Strs(<<IdShort>>)

(***************************************************************************)
(* C5 as stated: on disjoint lists get_mutual_friends returns exactly the  *)
(* target's list; on lists of the same membership it returns the empty     *)
(* list.                                                                   *)
(***************************************************************************)
Disjoint == SeqToSet(call.r1.items) \cap SeqToSet(call.r2.items) = {}
SameMembers == SeqToSet(call.r1.items) = SeqToSet(call.r2.items)

C5_DisjointGivesFullList ==
    Selected =>
        /\ Disjoint => call.list = call.r2.items
        /\ SameMembers => call.list = <<>>

(***************************************************************************)
(* C5 as amended: on disjoint lists get_mutual_friends returns the         *)
(* target's list in its original order without the occurrences of the      *)
(* operator's own id, hence exactly the target's list when that list does  *)
(* not hold the operator's id; on lists of the same membership it returns  *)
(* the empty list.  It returns a list whenever both lists were fetched and *)
(* every value they hold has a hash; otherwise the TypeError of the first  *)
(* value without one leaves the call.                                      *)
(***************************************************************************)
BothFetched ==
    /\ call.fn = "get_mutual_friends"
    /\ FriendListOutcome(call.r1).ok
    /\ FriendListOutcome(call.r2).ok

C5_DisjointGivesListWithoutSelf ==
    /\ Selected =>
          /\ Disjoint =>
               call.list = SelectSeq(call.r2.items, LAMBDA fid : fid # Str(OwnId))
          /\ (Disjoint /\ Str(OwnId) \notin SeqToSet(call.r2.items)) =>
               call.list = call.r2.items
          /\ SameMembers => call.list = <<>>
    /\ BothFetched =>
          /\ Selected <=> (\A v \in SeqToSet(call.r1.items \o call.r2.items) :
                              Hashable(v))
          /\ Selected <=> raised = ""
          /\ ~Selected => (raised = Exc("TypeError", HashError(call.r1.items,
                                                               call.r2.items))
                           /\ call.list = <<>>)

C5_Witness ==
    /\ Selected
    /\ Disjoint
    /\ call.r1.items = <<>>
    /\ call.r2.items = Strs(<<IdShort, IdA, IdShort>>)
    /\ call.list = Strs(<<IdShort, IdA, IdShort>>)

(***************************************************************************)
(* C9: for a format-valid id the result of the lookup decides the outcome: *)
(* timeout -> NetworkError(timeout), other transport fault ->              *)
(* NetworkError, 403 -> AuthError, 429 -> RateLimited, other non-200 ->    *)
(* UnexpectedResponse, 200 whose parsed body lacks the nested              *)
(* response/players array -> UnexpectedResponse, 200 with an empty players *)
(* array -> NotFound, 200 with a non-empty players array -> Valid; and     *)
(* Valid is returned in that last case only.                               *)
(***************************************************************************)
\* The body is an object whose outer member is an object whose inner member
\* is an array.
HasPlayers(resp) ==
    /\ resp.fail = "none" /\ resp.status = 200 /\ resp.json = "ok"
    /\ resp.body = "object" /\ resp.outer
    /\ resp.outer_kind = "object" /\ resp.inner
    /\ resp.inner_kind = "array"

C9_Expected(resp) ==
    IF resp.fail = "timeout" THEN "NetworkError(timeout)"
    ELSE IF resp.fail # "none" THEN "NetworkError"
    ELSE IF resp.status = 403 THEN "AuthError"
    ELSE IF resp.status = 429 THEN "RateLimited"
    ELSE IF resp.status # 200 THEN "UnexpectedResponse"
    ELSE IF ~HasPlayers(resp) THEN "UnexpectedResponse"
    ELSE IF EntryCount(resp) = 0 THEN "NotFound"
    ELSE "Valid"

C9_LookupOutcome ==
    (Validated /\ FormatError(call.arg) = "") =>
        /\ (call.r1.fail # "none" \/ call.r1.status # 200 \/ call.r1.json = "ok")
              => ValidationOutcome(call.ok, call.msg) = C9_Expected(call.r1)
        /\ call.ok <=> (HasPlayers(call.r1) /\ EntryCount(call.r1) > 0)

\* What the code does keep: the mapping of the transport faults, of the
\* statuses and of the bodies that are JSON objects down to the array.
WellNested(resp) ==
    resp.body = "object" /\ resp.outer_kind = "object" /\ resp.inner_kind = "array"

LookupOutcomeOfObjects ==
    (Validated /\ FormatError(call.arg) = "" /\ WellNested(call.r1)) =>
        /\ (call.r1.fail # "none" \/ call.r1.status # 200 \/ call.r1.json = "ok")
              => ValidationOutcome(call.ok, call.msg) = C9_Expected(call.r1)
        /\ call.ok <=> (HasPlayers(call.r1) /\ EntryCount(call.r1) > 0)

(***************************************************************************)
(* C10: get_friend_list maps 401 -> AuthError, 403 -> PrivateOrNotFound,   *)
(* 429 -> RateLimited, other non-200 or a parsed 200 body lacking          *)
(* friendslist/friends -> UnexpectedResponse, timeout or transport fault   *)
(* -> NetworkError, and a well-formed 200 -> success with the friends'     *)
(* ids in response order (possibly none); every failure returns an empty   *)
(* list.                                                                   *)
(***************************************************************************)
C10_Expected(resp) ==
    IF resp.fail # "none" THEN "NetworkError"
    ELSE IF resp.status = 401 THEN "AuthError"
    ELSE IF resp.status = 403 THEN "PrivateOrNotFound"
    ELSE IF resp.status = 429 THEN "RateLimited"
    ELSE "UnexpectedResponse"

HasFriendsMember(resp) ==
    /\ resp.body = "object" /\ resp.outer
    /\ resp.outer_kind = "object" /\ resp.inner

WellFormedFriends(resp) == HasPlayers(resp) /\ resp.keyed

C10_FetchOutcome ==
    call.fn = "get_friend_list" =>
        /\ (call.r1.fail # "none" \/ call.r1.status # 200)
              => FetchOutcome(call.ok, call.msg) = C10_Expected(call.r1)
        /\ (call.r1.fail = "none" /\ call.r1.status = 200 /\ call.r1.json = "ok"
              /\ ~HasFriendsMember(call.r1))
              => FetchOutcome(call.ok, call.msg) = "UnexpectedResponse"
        /\ (call.r1.fail = "none" /\ call.r1.status = 200 /\ call.r1.json = "ok"
              /\ WellFormedFriends(call.r1))
              => (call.ok /\ call.list = call.r1.items)
        /\ ~call.ok => call.list = <<>>

FetchOutcomeOfObjects ==
    (call.fn = "get_friend_list" /\ WellNested(call.r1)) =>
        /\ (call.r1.fail # "none" \/ call.r1.status # 200)
              => FetchOutcome(call.ok, call.msg) = C10_Expected(call.r1)
        /\ (call.r1.fail = "none" /\ call.r1.status = 200 /\ call.r1.json = "ok"
              /\ ~HasFriendsMember(call.r1))
              => FetchOutcome(call.ok, call.msg) = "UnexpectedResponse"
        /\ (call.r1.fail = "none" /\ call.r1.status = 200 /\ call.r1.json = "ok"
              /\ WellFormedFriends(call.r1))
              => (call.ok /\ call.list = call.r1.items)
        /\ ~call.ok => call.list = <<>>

(***************************************************************************)
(* C3: in a batch run the item just handled is counted by its validation   *)
(* outcome: InvalidFormat or NotFound in `invalid`; AuthError,             *)
(* RateLimited, NetworkError or UnexpectedResponse in `failed` (and not    *)
(* in `invalid`); Valid in `success`.                                      *)
(***************************************************************************)
PausePcs == {"f_pause", "m_pause"}

OnlyBumped(key) ==
    \A k \in {"success", "failed", "invalid"} :
        results'[k] = results[k] + (IF k = key THEN 1 ELSE 0)

C3_ClassifiedStep ==
    (pc \notin PausePcs /\ pc' \in PausePcs) =>
        LET o == ValidationOutcome(last'.ok, last'.msg)
        IN  /\ o \in {"InvalidFormat", "NotFound"} => OnlyBumped("invalid")
            /\ o \in {"AuthError", "RateLimited", "NetworkError",
                      "NetworkError(timeout)", "UnexpectedResponse"}
                 => OnlyBumped("failed")
            /\ o = "Valid" => OnlyBumped("success")

C3_ClassifiedByOutcome == [][C3_ClassifiedStep]_vars

(***************************************************************************)
(* C6: when a file-driven run whose source was read ends, `skipped` is     *)
(* the number of lines that, once trimmed, are empty or start with '#',    *)
(* `total` is the number of the other lines, and only those other lines    *)
(* were passed to validation.                                              *)
(***************************************************************************)
IsBlankOrComment(line) ==
    LET t == Strip(line) IN Len(t) = 0 \/ CharAt(t, 1) = "#"

CountSkippable(lines) ==
    Cardinality({i \in 1..Len(lines) : IsBlankOrComment(lines[i])})

FileRunDone == pc = "done" /\ mode = "file" /\ fatal = "none"

C6_SkippedAndTotal ==
    FileRunDone =>
        /\ ret.counts.skipped = CountSkippable(src)
        /\ ret.counts.total = Len(src) - CountSkippable(src)
        /\ val_calls = ret.counts.total
        /\ net_calls <= ret.counts.total

C6_Witness ==
    /\ FileRunDone
    /\ src = <<" " \o FS \o "#x\n", IdA \o "\n", "notanumber\n">>
    /\ ret.counts = [total |-> 2, success |-> 1, failed |-> 0, invalid |-> 1,
                     skipped |-> 1]
    /\ val_calls = 2

(***************************************************************************)
(* C7: when a fatal I/O error occurs on the input source (missing, cannot  *)
(* be opened, fails while read) the returned result has the error field    *)
(* and still carries the five counters with their accumulated values.      *)
(***************************************************************************)
C7_FatalKeepsCounters ==
    (pc = "done" /\ fatal # "none") =>
        /\ "error" \in ret.keys
        /\ CounterKeys \subseteq ret.keys
        /\ ret.counts = results

\* What the code does keep: the counters when the existing file cannot be
\* opened or read.
FatalAfterExistsKeepsCounters ==
    (pc = "done" /\ fatal \in {"open", "read"}) =>
        /\ "error" \in ret.keys
        /\ CounterKeys \subseteq ret.keys
        /\ ret.counts = results

(***************************************************************************)
(* C8: no validation or network outcome of an item aborts a batch: a run   *)
(* whose source was read processes every item, counts every non-skipped    *)
(* item in exactly one of success, failed and invalid, and returns a       *)
(* result without an error field; and a run that has entered its loop      *)
(* eventually returns.                                                     *)
(***************************************************************************)
LoopPcs ==
    {"f_loop", "f_counted", "f_wait", "f_lookup", "f_returned", "f_pause",
     "m_loop", "m_counted", "m_wait", "m_lookup", "m_returned", "m_pause"}

LoopRunDone == pc = "done" /\ (FileRunDone \/ (mode = "mutual" /\ src # <<>>))

WholeSourceProcessed ==
    LoopRunDone =>
        /\ "error" \notin ret.keys
        /\ ret.keys = CounterKeys
        /\ ret.counts = results
        /\ idx = Len(src) + 1
        /\ results.total + results.skipped = Len(src)
        /\ results.success + results.failed + results.invalid = results.total

C8_ItemsNeverAbort ==
    /\ []WholeSourceProcessed
    /\ (pc \in LoopPcs) ~> (pc = "done")

\* What the code does: a candidate that is no str ends add_mutual_friends
\* by an AttributeError, counted in `total` and in no class, and nothing is
\* returned.
CandidateAbortsRun ==
    /\ pc = "raised"
    /\ mode = "mutual"
    /\ src = <<Str(IdA), JsonNumber>>
    /\ idx = 2
    /\ results = [total |-> 2, success |-> 1, failed |-> 0, invalid |-> 0,
                  skipped |-> 0]
    /\ raised = "AttributeError: 'int' object has no attribute 'strip'"
    /\ ret = NoRet

NoCandidateAbortsRun == ~CandidateAbortsRun

\* What the code does keep: a run ends, by a result or by an exception, and
\* a file-driven run past its opening always by a result.
LoopsEnd ==
    /\ (pc \in LoopPcs) ~> (pc \in {"done", "raised"})
    /\ (pc \in LoopPcs /\ mode = "file") ~> (pc = "done")
    /\ [](pc = "raised" => (mode = "mutual" /\ ret = NoRet))

C8_Witness ==
    /\ FileRunDone
    /\ src = <<IdA \o "\n", "notanumber\n", IdA \o "\n">>
    /\ last.msg = "Request timeout"
    /\ net_calls = 2
    /\ ret.counts.success = 0
    /\ ret.counts.total = 3
    /\ "error" \notin ret.keys

(***************************************************************************)
(* C11: every network lookup is issued right after one admission by        *)
(* _rate_limit_check on the one request_times window: a step issues at     *)
(* most one lookup, issues it together with exactly one admission, which   *)
(* records its instant in the window, and no admission is made without a   *)
(* lookup; so the admissions always number the lookups issued.             *)
(***************************************************************************)
AdmissionsMatchLookups == Len(admitted) = net_calls

OneAdmissionPerLookup ==
    /\ net_calls' # net_calls =>
          /\ net_calls' = net_calls + 1
          /\ Len(admitted') = Len(admitted) + 1
          /\ request_times' # request_times
          /\ request_times'[Len(request_times')] <= admitted'[Len(admitted')]
    /\ admitted' # admitted => net_calls' = net_calls + 1

C11_AdmissionBeforeEveryLookup ==
    /\ []AdmissionsMatchLookups
    /\ [][OneAdmissionPerLookup]_vars

C11_Witness ==
    /\ pc = "m_their"
    /\ net_calls = 3
    /\ Len(admitted) = 3
    /\ Len(request_times) = 3

(***************************************************************************)
(* C12: no retries.  Each non-skipped item of a batch is validated at most *)
(* once and looked up at most once, whatever the lookup returned, and the  *)
(* loop never goes back to an item: the index never decreases, and the     *)
(* validation calls never outnumber the non-skipped items reached.         *)
(***************************************************************************)
TargetValidations == IF mode = "mutual" THEN 1 ELSE 0
LookupsBeforeLoop == IF mode = "mutual" THEN 3 ELSE 0

InLoop == pc \in LoopPcs

\* The item at idx is counted in total and its validation is still to come.
CountedOnly == IF pc \in {"f_counted", "m_counted"} THEN 1 ELSE 0

\* The items taken from the source so far: at the head of the loop the item
\* at idx has not been taken yet.
ItemsReached == IF pc \in {"f_loop", "m_loop"} THEN idx - 1 ELSE idx

AtMostOneAttemptPerItem ==
    InLoop =>
        /\ val_calls - TargetValidations <= ItemsReached - results.skipped
        /\ net_calls - LookupsBeforeLoop <= val_calls - TargetValidations
        /\ val_calls - TargetValidations = results.total - CountedOnly

NeverBackToAnItem == InLoop => (idx' >= idx /\ src' = src)

C12_NoRetries ==
    /\ []AtMostOneAttemptPerItem
    /\ [][NeverBackToAnItem]_vars

C12_Witness ==
    /\ pc = "done"
    /\ mode = "file"
    /\ src = <<IdA \o "\n", IdA \o "\n">>
    /\ last.msg = "Request timeout"
    /\ now = 2 * TIMEOUT + 2 * PAUSE
    /\ val_calls = 2
    /\ net_calls = 2

(***************************************************************************)
(* The steps of the rate limiter runs that are calls of _rate_limit_check, *)
(* and what can be observed of one: the call slept exactly when the clock  *)
(* moved during it.                                                        *)
(***************************************************************************)
CallStep == pc = "rate" /\ Len(admitted') = Len(admitted) + 1
CallSlept == now' > now

RecentEntries ==
    Cardinality({i \in 1..Len(request_times) : now - request_times[i] < WINDOW})

(***************************************************************************)
(* C13: a call of _rate_limit_check suspends the caller if and only if the *)
(* window holds at least max_requests_per_minute (30) entries younger than *)
(* 60 seconds when it is called; so the first 30 calls on an empty window  *)
(* never sleep and a call finding 30 such entries always does.             *)
(***************************************************************************)
C13_SleepsIffFull ==
    CallStep =>
        /\ CallSlept <=> RecentEntries >= max_requests_per_minute
        /\ Len(admitted) < max_requests_per_minute => ~CallSlept

C13_SleepsIffCeilingReached == [][C13_SleepsIffFull]_vars

C13_Witness ==
    /\ pc = "rate"
    /\ Len(admitted) = 31
    /\ admitted[30] = 59
    /\ admitted[31] = 60
    /\ now = 60

(***************************************************************************)
(* C14: after a call of _rate_limit_check that slept, the window holds     *)
(* exactly one entry, the instant at which the call returns after the      *)
(* sleep; after a call that did not sleep, the window is the former        *)
(* window without its entries of 60 seconds or more, plus the current      *)
(* instant.                                                                *)
(***************************************************************************)
C14_WindowAfterCallStep ==
    CallStep =>
        IF CallSlept
        THEN request_times' = <<now'>>
        ELSE request_times' =
                Append(SelectSeq(request_times, LAMBDA x : now - x < WINDOW), now')

C14_WindowAfterCall == [][C14_WindowAfterCallStep]_vars

\* What the code does record after a sleep: the instant read before it.
WindowAfterSleepHoldsEarlierInstantStep ==
    (CallStep /\ CallSlept) => (request_times' = <<now>> /\ now < now')

WindowAfterSleepHoldsEarlierInstant == [][WindowAfterSleepHoldsEarlierInstantStep]_vars

(***************************************************************************)
(* C15: when a call of _rate_limit_check returns, every instant stored in  *)
(* the window is less than 60 seconds old.                                 *)
(***************************************************************************)
C15_AllRecentStep ==
    CallStep =>
        \A i \in 1..Len(request_times') : now' - request_times'[i] < WINDOW

C15_WindowHoldsRecentOnly == [][C15_AllRecentStep]_vars

(***************************************************************************)
(* C16: get_mutual_friends fetches the operator's list first; when that    *)
(* fetch fails it returns at once a failure naming the operator's list,    *)
(* without a second admission or lookup; when the fetch of the target's    *)
(* list fails it returns a failure naming the target's list; the           *)
(* candidate list of both failures is empty.                               *)
(***************************************************************************)
C16_FetchFailures ==
    call.fn = "get_mutual_friends" =>
        /\ ~FriendListOutcome(call.r1).ok =>
              /\ ~call.ok /\ call.list = <<>>
              /\ StartsWith(call.msg, "Failed to get your friend list: ")
              /\ net_calls = 1 /\ Len(admitted) = 1
              /\ now = Elapsed(call.r1)
        /\ (FriendListOutcome(call.r1).ok /\ ~FriendListOutcome(call.r2).ok) =>
              /\ ~call.ok /\ call.list = <<>>
              /\ StartsWith(call.msg, "Failed to get target user's friend list: ")
              /\ net_calls = 2 /\ Len(admitted) = 2
        /\ (FriendListOutcome(call.r1).ok /\ FriendListOutcome(call.r2).ok) =>
              /\ net_calls = 2
              /\ call.msg = ""
              /\ call.ok <=> raised = ""
        /\ (WellFormedFriends(call.r1) /\ WellFormedFriends(call.r2)
               /\ HashError(call.r1.items, call.r2.items) = "") => call.ok
        /\ call.r1.fail # "none" => ~call.ok

C16_Witness ==
    /\ call.fn = "get_mutual_friends"
    /\ call.r1.status = 403
    /\ call.r2.items = Strs(<<IdA>>)
    /\ call.msg = "Failed to get your friend list: Friend list is private or user not found"
    /\ call.list = <<>>
    /\ net_calls = 1

(***************************************************************************)
(* C17 as stated: a batch takes its items one at a time in source order,   *)
(* and after each item, whichever of Success, Failed, Invalid and Skipped  *)
(* it reached, one fixed pause passes before the next item begins.         *)
(***************************************************************************)
NextItemStep == InLoop /\ idx' = idx + 1

C17_PauseAfterEveryItemStep ==
    /\ InLoop => idx' \in {idx, idx + 1}
    /\ NextItemStep => (pc \in PausePcs /\ now' = now + PAUSE)

C17_PauseAfterEveryItem == [][C17_PauseAfterEveryItemStep]_vars

(***************************************************************************)
(* C17 as amended: a batch takes its items one at a time in source order;  *)
(* after each item that reached Success, Failed or Invalid exactly one     *)
(* fixed pause passes before the next item begins, and a Skipped line is   *)
(* followed by the next line at once, without a pause.                     *)
(***************************************************************************)
ClassifiedCount(res) == res.success + res.failed + res.invalid

C17_PauseAfterCountedItemStep ==
    /\ InLoop => idx' \in {idx, idx + 1}
    /\ NextItemStep =>
          \/ /\ pc \in PausePcs
             /\ now' = now + PAUSE
             /\ results' = results
          \/ /\ pc = "f_loop"
             /\ IsBlankOrComment(src[idx])
             /\ results'.skipped = results.skipped + 1
             /\ now' = now
    /\ (InLoop /\ ClassifiedCount(results') # ClassifiedCount(results)) =>
          (pc' \in PausePcs /\ idx' = idx)
    /\ pc \in PausePcs => (idx' = idx + 1 /\ pc' \in {"f_loop", "m_loop"})

C17_PauseAfterCountedItem == [][C17_PauseAfterCountedItemStep]_vars

C17_Witness ==
    /\ pc = "f_loop"
    /\ src = <<"# comment\n", IdA \o "\n", "notanumber\n">>
    /\ idx = 3
    /\ results.skipped = 1
    /\ results.success = 1
    /\ now = PAUSE

(***************************************************************************)
(* C18: an operator interrupt is observed between items only: it never     *)
(* takes effect while a network lookup is in flight, and when it does      *)
(* take effect every item counted in `total` has been classified.          *)
(***************************************************************************)
C18_AbortBetweenItemsStep ==
    pc' = "cancelled" =>
        /\ pc \notin LookupPcs
        /\ ClassifiedCount(results) = results.total

C18_AbortBetweenItemsOnly == [][C18_AbortBetweenItemsStep]_vars

\* What the code does: the interrupt can end the run during the lookup of an
\* item, which then stays counted in `total` and unclassified.
CutOffMidLookup ==
    /\ pc = "cancelled"
    /\ mode = "file"
    /\ results.total = 1
    /\ ClassifiedCount(results) = 0
    /\ net_calls = 1

NeverCutOffMidLookup == ~CutOffMidLookup

\* And it can end the run between an admission and its lookup: the instant
\* is in the window and the request was never made.
CutOffAfterAdmission ==
    /\ pc = "cancelled"
    /\ mode = "file"
    /\ results.total = 1
    /\ ClassifiedCount(results) = 0
    /\ Len(admitted) = 1
    /\ net_calls = 0

NeverCutOffAfterAdmission == ~CutOffAfterAdmission

(***************************************************************************)
(* C19: at every item boundary of a batch and in the returned result,      *)
(* total = success + failed + invalid and no counter is negative; in a     *)
(* file-driven run total + skipped is the number of lines consumed so      *)
(* far; and no counter ever decreases during the run.                      *)
(***************************************************************************)
ItemBoundary == pc \in {"f_loop", "m_loop"}
ReturnedCounters == pc = "done" /\ CounterKeys \subseteq ret.keys

CountersConsistent ==
    /\ ItemBoundary =>
          /\ results.total = ClassifiedCount(results)
          /\ \A k \in CounterKeys : results[k] >= 0
          /\ results.total + results.skipped = idx - 1
          /\ mode = "mutual" => results.skipped = 0
    /\ ReturnedCounters =>
          /\ ret.counts = results
          /\ ret.counts.total = ClassifiedCount(ret.counts)
          /\ \A k \in CounterKeys : ret.counts[k] >= 0
          /\ ret.counts.total + ret.counts.skipped = Len(src)

CountersNeverDecrease == \A k \in CounterKeys : results'[k] >= results[k]

C19_CountersAddUp ==
    /\ []CountersConsistent
    /\ [][CountersNeverDecrease]_vars

C19_Witness ==
    /\ pc = "m_loop"
    /\ src = Strs(<<IdA, IdShort, IdA>>)
    /\ idx = 3
    /\ results = [total |-> 2, success |-> 1, failed |-> 0, invalid |-> 1,
                  skipped |-> 0]

(***************************************************************************)
(* C20: in add_mutual_friends, a target id whose validation is not Valid   *)
(* ends the operation with a result holding the error field only, with no  *)
(* friend list fetch, no candidate validation and no counter update; and   *)
(* a selection that succeeds with no candidate ends it with the five       *)
(* counters at zero, no error field and no candidate validation.           *)
(***************************************************************************)
TargetValidated ==
    \/ pc = "idle" /\ mode' = "mutual" /\ pc' = "done"
    \/ pc = "m_target"

C20_MutualEarlyReturnsStep ==
    /\ (TargetValidated /\ ~last'.ok) =>
          /\ pc' = "done"
          /\ ret'.keys = {"error"}
          /\ StartsWith(ret'.error, "Invalid target Steam ID: ")
          /\ net_calls' = net_calls
          /\ val_calls' = 1
          /\ results' = NoCounters /\ src' = <<>>
    /\ (pc = "m_target" /\ last'.ok) =>
          /\ pc' \in {"m_own", "m_own_wait"}
          /\ pc' = "m_own" => net_calls' = 2
    /\ (pc = "m_their" /\ pc' = "done" /\ "error" \notin ret'.keys) =>
          /\ ret'.keys = CounterKeys
          /\ ret'.counts = NoCounters
          /\ val_calls' = 1
          /\ net_calls' = 3
          /\ src' = <<>>
    /\ (pc = "m_their" /\ pc' = "m_loop") => src' # <<>>

C20_MutualEarlyReturns == [][C20_MutualEarlyReturnsStep]_vars

C20_Witness ==
    /\ pc = "done"
    /\ mode = "mutual"
    /\ last.msg = "Steam ID not found"
    /\ ret.keys = {"error"}
    /\ ret.error = "Invalid target Steam ID: Steam ID not found"
    /\ val_calls = 1
    /\ net_calls = 1
    /\ results = NoCounters

(***************************************************************************)
(* C21: between calls of _rate_limit_check, with a clock that never runs   *)
(* backwards, request_times holds at most max_requests_per_minute (30)     *)
(* entries and they are in non-decreasing order, so its first entry is the *)
(* oldest recorded instant, the one the wait is computed from.             *)
(***************************************************************************)
WindowSorted ==
    \A i, j \in 1..Len(request_times) :
        i <= j => request_times[i] <= request_times[j]

FirstIsOldest ==
    \A i \in 1..Len(request_times) : request_times[1] <= request_times[i]

C21_WindowBoundedAndSorted ==
    /\ Len(request_times) <= max_requests_per_minute
    /\ WindowSorted
    /\ FirstIsOldest
    /\ \A i \in 1..Len(request_times) : request_times[i] <= now

C21_Witness ==
    /\ pc = "rate"
    /\ Len(request_times) = max_requests_per_minute
    /\ request_times[1] = 0
    /\ request_times[2] = 1
    /\ request_times[max_requests_per_minute] = 2
    /\ now = 2

(***************************************************************************)
(* C22: a call of _rate_limit_check that finds the ceiling reached after   *)
(* pruning computes a wait with 0 < wait <= 60, so it sleeps once for that *)
(* long and clears the window; a call that does not find it reached does   *)
(* not sleep.  Every call is over in one step, having slept at most 60     *)
(* seconds.                                                                *)
(***************************************************************************)
CeilingReachedAfterPruning ==
    Len(Prune(request_times, now)) >= max_requests_per_minute

ComputedWait == WINDOW - (now - Prune(request_times, now)[1])

C22_WaitStep ==
    CallStep =>
        /\ CeilingReachedAfterPruning =>
              /\ 0 < ComputedWait /\ ComputedWait <= WINDOW
              /\ now' = now + ComputedWait
              /\ request_times' = <<now>>
        /\ ~CeilingReachedAfterPruning =>
              /\ now' = now
              /\ request_times' = Append(Prune(request_times, now), now)
        /\ now' - now <= WINDOW
        /\ pc' = "rate"

C22_WaitPositiveAtMost60 == [][C22_WaitStep]_vars

C22_Witness ==
    /\ pc = "rate"
    /\ Len(admitted) = max_requests_per_minute + 1
    /\ admitted[max_requests_per_minute] = 0
    /\ admitted[max_requests_per_minute + 1] = WINDOW
    /\ request_times = <<0>>
    /\ now = WINDOW
    /\ ticks = 0

====
